---------------------------- MODULE Spec2Model ----------------------------
(***************************************************************************)
(* A model of the MoBI XDF-to-BIDS conversion scripts:                     *)
(*   code/xdf2bids_group.py        find_xdf_file, convert_task_name_for_   *)
(*                                 bids, load_and_prepare_raw, main        *)
(*   code/xdf_debugging.py         inspect_xdf_file                        *)
(*   code/Create_montage_PRO-64x.py create_prox64_montage                  *)
(*                                                                         *)
(* Four specifications share the module:                                   *)
(*   Spec        the batch loop of main over a file system                 *)
(*   SpecLoad    load_and_prepare_raw (and inspect_xdf_file) on one file,  *)
(*               followed by main's queueing and write of that file        *)
(*   SpecMontage create_prox64_montage, one table entry at a time          *)
(*   SpecFind    one call of find_xdf_file on a subject directory          *)
(***************************************************************************)
EXTENDS Integers, Sequences, FiniteSets, TLC

VARIABLES
    \* ---- main (xdf2bids_group.py) ----
    dirs,                    \* subjects whose source directory exists
    fs,                      \* the XDF files that exist
    pc,                      \* position of main
    si,                      \* index into subjects (outer loop)
    ti,                      \* index into tasks (inner loop)
    raw_list,                \* main's raw_list
    bids_list,               \* main's bids_list
    file_info,               \* main's file_info
    wi,                      \* index of the conversion loop (i + 1)
    successful_conversions,
    failed_conversions,
    summary,                 \* the printed conversion summary
    events,                  \* the loads and writes performed, in order
    \* ---- one file through load_and_prepare_raw and inspect_xdf_file ----
    streams,                 \* what pyxdf.load_xdf yields for the file
    corrupt,                 \* pyxdf.load_xdf raises on the file
    lpc,                     \* position of the file in the pipeline
    eeg_stream,              \* index of the stream chosen as EEG (0: None)
    markers_stream,          \* index of the stream chosen as markers (0: None)
    raw,                     \* what load_and_prepare_raw returned
    handed,                  \* what write_raw_bids received
    inspection,              \* outcome of inspect_xdf_file on the file
    \* ---- create_prox64_montage (Create_montage_PRO-64x.py) ----
    mpc,                     \* position of create_prox64_montage
    coords_deg,              \* the table, in insertion order
    mk,                      \* index of the conversion loop into coords_deg
    xy,                      \* the x and y of the entry being converted
    ch_pos_cartesian,        \* the positions computed, in insertion order
    montage,                 \* the montage returned
    \* ---- one call of find_xdf_file ----
    fpc,                     \* "call" before the call, "returned" after it
    find_files,              \* the files that exist in subject_dir
    find_subject,            \* the argument subject_id
    find_task,               \* the argument task_name
    find_result              \* the pair (path, task) returned

batchVars == <<dirs, fs, pc, si, ti, raw_list, bids_list, file_info, wi,
               successful_conversions, failed_conversions, summary, events>>

loadVars == <<streams, corrupt, lpc, eeg_stream, markers_stream, raw, handed,
              inspection>>

montageVars == <<mpc, coords_deg, mk, xy, ch_pos_cartesian, montage>>

findVars == <<fpc, find_files, find_subject, find_task, find_result>>

vars == <<batchVars, loadVars, montageVars, findVars>>

-----------------------------------------------------------------------------
(* Bounds of the model *)

\* at most this many XDF files exist in the source tree
MaxFiles == 2

\* at most this many streams in one XDF file
MaxStreams == 2

-----------------------------------------------------------------------------
(* CONFIGURATION (xdf2bids_group.py, lines 29-55) *)

None == "None"

subjects == <<"P01", "P02", "P03">>

tasks == <<"natural-walk", "sitting-eyes-closed", "sitting-eyes-open",
           "treadmill-walk-comfortable", "treadmill-walk-fast">>

task_variations ==
    "sitting-eyes-closed" :> <<"sitting-eyes-closed-before", "sitting-eyes-closed-after">> @@
    "sitting-eyes-open" :> <<"sitting-eyes-open-before", "sitting-eyes-open-after">> @@
    "treadmill-walk-fast" :> <<"treadmill-walk-fast-1">>

session == "01"

anonymize_data == FALSE

Range(s) == {s[i] : i \in DOMAIN s}

\* The characters of each task name the configuration can produce.
TaskChars ==
    "natural-walk" :> <<"n","a","t","u","r","a","l","-","w","a","l","k">> @@
    "sitting-eyes-closed" :> <<"s","i","t","t","i","n","g","-","e","y","e","s","-","c","l","o","s","e","d">> @@
    "sitting-eyes-open" :> <<"s","i","t","t","i","n","g","-","e","y","e","s","-","o","p","e","n">> @@
    "treadmill-walk-comfortable" :> <<"t","r","e","a","d","m","i","l","l","-","w","a","l","k","-","c","o","m","f","o","r","t","a","b","l","e">> @@
    "treadmill-walk-fast" :> <<"t","r","e","a","d","m","i","l","l","-","w","a","l","k","-","f","a","s","t">> @@
    "sitting-eyes-closed-before" :> <<"s","i","t","t","i","n","g","-","e","y","e","s","-","c","l","o","s","e","d","-","b","e","f","o","r","e">> @@
    "sitting-eyes-closed-after" :> <<"s","i","t","t","i","n","g","-","e","y","e","s","-","c","l","o","s","e","d","-","a","f","t","e","r">> @@
    "sitting-eyes-open-before" :> <<"s","i","t","t","i","n","g","-","e","y","e","s","-","o","p","e","n","-","b","e","f","o","r","e">> @@
    "sitting-eyes-open-after" :> <<"s","i","t","t","i","n","g","-","e","y","e","s","-","o","p","e","n","-","a","f","t","e","r">> @@
    "treadmill-walk-fast-1" :> <<"t","r","e","a","d","m","i","l","l","-","w","a","l","k","-","f","a","s","t","-","1">>

-----------------------------------------------------------------------------
(* Characters: str.lower, str.upper on the letters the model uses *)

LowerLetters == <<"a","b","c","d","e","f","g","h","i","j","k","l","m",
                  "n","o","p","q","r","s","t","u","v","w","x","y","z">>
UpperLetters == <<"A","B","C","D","E","F","G","H","I","J","K","L","M",
                  "N","O","P","Q","R","S","T","U","V","W","X","Y","Z">>

LowerChar(c) ==
    IF \E i \in DOMAIN UpperLetters : UpperLetters[i] = c
    THEN LowerLetters[CHOOSE i \in DOMAIN UpperLetters : UpperLetters[i] = c]
    ELSE c

UpperChar(c) ==
    IF \E i \in DOMAIN LowerLetters : LowerLetters[i] = c
    THEN UpperLetters[CHOOSE i \in DOMAIN LowerLetters : LowerLetters[i] = c]
    ELSE c

\* str.lower()
Lower(s) == [i \in DOMAIN s |-> LowerChar(s[i])]

\* str.capitalize(): first character upper-cased, the rest lower-cased
Capitalize(s) ==
    [i \in DOMAIN s |-> IF i = 1 THEN UpperChar(s[i]) ELSE LowerChar(s[i])]

\* sub in s
Contains(sub, s) ==
    \E k \in 0..(Len(s) - Len(sub)) :
        \A j \in 1..Len(sub) : s[k + j] = sub[j]

\* str.split(sep): the pieces between the occurrences of the character sep
RECURSIVE SplitFrom(_, _, _, _)
SplitFrom(s, sep, i, cur) ==
    IF i > Len(s) THEN <<cur>>
    ELSE IF s[i] = sep THEN <<cur>> \o SplitFrom(s, sep, i + 1, <<>>)
    ELSE SplitFrom(s, sep, i + 1, Append(cur, s[i]))

Split(s, sep) == SplitFrom(s, sep, 1, <<>>)

\* ''.join(words)
RECURSIVE Join(_)
Join(words) ==
    IF words = <<>> THEN <<>> ELSE Head(words) \o Join(Tail(words))

-----------------------------------------------------------------------------
(* UTILITY FUNCTIONS (xdf2bids_group.py) *)

\* The file sub-<subject_id>_task-<task_name>_eeg.xdf in the subject's directory
XdfFile(subject_id, task_name) == [subject |-> subject_id, task |-> task_name]

NoPath == [subject |-> None, task |-> None]

RECURSIVE FirstVariation(_, _, _)
FirstVariation(files, subject_id, variations) ==
    IF variations = <<>> THEN [path |-> NoPath, task |-> None]
    ELSE IF XdfFile(subject_id, Head(variations)) \in files
         THEN [path |-> XdfFile(subject_id, Head(variations)), task |-> Head(variations)]
         ELSE FirstVariation(files, subject_id, Tail(variations))

\* A bug: a file found under a variation is returned with the configured task
find_xdf_file_keeps_task(files, subject_id, task_name) ==
    IF XdfFile(subject_id, task_name) \in files
    THEN [path |-> XdfFile(subject_id, task_name), task |-> task_name]
    ELSE IF task_name \in DOMAIN task_variations
         THEN [path |-> FirstVariation(files, subject_id, task_variations[task_name]).path,
               task |-> IF FirstVariation(files, subject_id,
                                          task_variations[task_name]).path = NoPath
                        THEN None ELSE task_name]
         ELSE [path |-> NoPath, task |-> None]

find_xdf_file(files, subject_id, task_name) ==
    IF XdfFile(subject_id, task_name) \in files
    THEN [path |-> XdfFile(subject_id, task_name), task |-> task_name]
    ELSE IF task_name \in DOMAIN task_variations
         THEN FirstVariation(files, subject_id, task_variations[task_name])
         ELSE [path |-> NoPath, task |-> None]

\* A bug: only the first two words of the task name are kept
convert_first_two_words(task_name) ==
    LET parts == Split(TaskChars[task_name], "-")
    IN  Join([i \in {j \in DOMAIN parts : j <= 2} |-> Capitalize(parts[i])])

convert_task_name_for_bids(task_name) ==
    LET parts == Split(TaskChars[task_name], "-")
    IN  Join([i \in DOMAIN parts |-> Capitalize(parts[i])])

-----------------------------------------------------------------------------
(* The file system main runs on *)

AllTaskNames ==
    Range(tasks) \cup UNION {Range(task_variations[t]) : t \in DOMAIN task_variations}

CandidateFiles(ds) == {XdfFile(s, t) : s \in ds, t \in AllTaskNames}

RECURSIVE SubsetsUpTo(_, _)
SubsetsUpTo(S, k) ==
    IF k = 0 THEN {{}}
    ELSE LET P == SubsetsUpTo(S, k - 1)
         IN  P \cup {T \cup {x} : T \in P, x \in S}

-----------------------------------------------------------------------------
(* main (xdf2bids_group.py, lines 198-339) *)

NoSummary == [total |-> -1, successful |-> -1, failed |-> -1]

InitBatch ==
    /\ dirs \in SUBSET Range(subjects)
    /\ fs \in SubsetsUpTo(CandidateFiles(dirs), MaxFiles)
    /\ pc = "subject"
    /\ si = 1
    /\ ti = 1
    /\ raw_list = <<>>
    /\ bids_list = <<>>
    /\ file_info = <<>>
    /\ wi = 0
    /\ successful_conversions = 0
    /\ failed_conversions = 0
    /\ summary = NoSummary
    /\ events = <<>>

\* The position of main after the body of the task loop ends (or continues)
NextIteration(s, t) ==
    IF t < Len(tasks) THEN [pc |-> "task", si |-> s, ti |-> t + 1]
    ELSE [pc |-> "subject", si |-> s + 1, ti |-> 1]

\* A bug a batch loop may have: the first failed load ends the batch
AfterLoadFailureAbort(s, t) == [pc |-> "done", si |-> s, ti |-> t]

\* `continue` after load_and_prepare_raw returned None
AfterLoadFailure(s, t) == NextIteration(s, t)

\* A bug: the conversion loop walks the queue from its end
QueuedAtReversed(list, i) == list[Len(list) + 1 - i]

\* The i-th element that enumerate(zip(raw_list, bids_list)) yields
QueuedAt(list, i) == list[i]

GoTo(p) ==
    /\ pc' = p.pc
    /\ si' = p.si
    /\ ti' = p.ti

\* for subject_id in subjects: the subject's directory does not exist
SubjectDirMissing ==
    /\ pc = "subject"
    /\ si <= Len(subjects)
    /\ subjects[si] \notin dirs
    /\ si' = si + 1
    /\ UNCHANGED <<dirs, fs, pc, ti, raw_list, bids_list, file_info, wi,
                   successful_conversions, failed_conversions, summary, events>>
    /\ UNCHANGED <<loadVars, montageVars, findVars>>

SubjectDirFound ==
    /\ pc = "subject"
    /\ si <= Len(subjects)
    /\ subjects[si] \in dirs
    /\ pc' = "task"
    /\ ti' = 1
    /\ UNCHANGED <<dirs, fs, si, raw_list, bids_list, file_info, wi,
                   successful_conversions, failed_conversions, summary, events>>
    /\ UNCHANGED <<loadVars, montageVars, findVars>>

\* find_xdf_file returned (None, None)
FileNotFound ==
    /\ pc = "task"
    /\ find_xdf_file(fs, subjects[si], tasks[ti]).path = NoPath
    /\ GoTo(NextIteration(si, ti))
    /\ UNCHANGED <<dirs, fs, raw_list, bids_list, file_info, wi,
                   successful_conversions, failed_conversions, summary, events>>
    /\ UNCHANGED <<loadVars, montageVars, findVars>>

\* load_and_prepare_raw returned None for the file found
LoadFailed ==
    /\ pc = "task"
    /\ LET found == find_xdf_file(fs, subjects[si], tasks[ti])
       IN  /\ found.path # NoPath
           /\ events' = Append(events, [op |-> "load", file |-> found.path, ok |-> FALSE])
    /\ GoTo(AfterLoadFailure(si, ti))
    /\ UNCHANGED <<dirs, fs, raw_list, bids_list, file_info, wi,
                   successful_conversions, failed_conversions, summary>>
    /\ UNCHANGED <<loadVars, montageVars, findVars>>

\* load_and_prepare_raw returned a Raw: it is queued with its BIDS path
LoadSucceeded ==
    /\ pc = "task"
    /\ LET found == find_xdf_file(fs, subjects[si], tasks[ti])
           bids_task_name == convert_task_name_for_bids(found.task)
       IN  /\ found.path # NoPath
           /\ events' = Append(events, [op |-> "load", file |-> found.path, ok |-> TRUE])
           /\ raw_list' = Append(raw_list, [file |-> found.path])
           /\ bids_list' = Append(bids_list,
                  [subject |-> subjects[si], session |-> session,
                   task |-> bids_task_name, datatype |-> "eeg"])
           /\ file_info' = Append(file_info,
                  [subject |-> subjects[si], task |-> found.task,
                   bids_task |-> bids_task_name, file |-> found.path])
    /\ GoTo(NextIteration(si, ti))
    /\ UNCHANGED <<dirs, fs, wi, successful_conversions, failed_conversions, summary>>
    /\ UNCHANGED <<loadVars, montageVars, findVars>>

\* len(raw_list) == 0: main returns before the conversion and the summary
NoFiles ==
    /\ pc = "subject"
    /\ si > Len(subjects)
    /\ Len(raw_list) = 0
    /\ pc' = "done"
    /\ UNCHANGED <<dirs, fs, si, ti, raw_list, bids_list, file_info, wi,
                   successful_conversions, failed_conversions, summary, events>>
    /\ UNCHANGED <<loadVars, montageVars, findVars>>

\* Step 2 is skipped (anonymize_data is False); Step 3 begins
StartConversion ==
    /\ pc = "subject"
    /\ si > Len(subjects)
    /\ Len(raw_list) # 0
    /\ ~anonymize_data
    /\ pc' = "write"
    /\ wi' = 1
    /\ successful_conversions' = 0
    /\ failed_conversions' = 0
    /\ UNCHANGED <<dirs, fs, si, ti, raw_list, bids_list, file_info, summary, events>>
    /\ UNCHANGED <<loadVars, montageVars, findVars>>

\* write_raw_bids(raw, bids_path, ...) returned
WriteSucceeded ==
    /\ pc = "write"
    /\ wi <= Len(raw_list)
    /\ events' = Append(events,
           [op |-> "write", file |-> QueuedAt(raw_list, wi).file, ok |-> TRUE])
    /\ successful_conversions' = successful_conversions + 1
    /\ wi' = wi + 1
    /\ UNCHANGED <<dirs, fs, pc, si, ti, raw_list, bids_list, file_info,
                   failed_conversions, summary>>
    /\ UNCHANGED <<loadVars, montageVars, findVars>>

\* write_raw_bids raised: the exception is caught and counted
WriteFailed ==
    /\ pc = "write"
    /\ wi <= Len(raw_list)
    /\ events' = Append(events,
           [op |-> "write", file |-> QueuedAt(raw_list, wi).file, ok |-> FALSE])
    /\ failed_conversions' = failed_conversions + 1
    /\ wi' = wi + 1
    /\ UNCHANGED <<dirs, fs, pc, si, ti, raw_list, bids_list, file_info,
                   successful_conversions, summary>>
    /\ UNCHANGED <<loadVars, montageVars, findVars>>

\* Step 4: the conversion summary
Summary ==
    /\ pc = "write"
    /\ wi > Len(raw_list)
    /\ summary' = [total |-> Len(raw_list),
                   successful |-> successful_conversions,
                   failed |-> failed_conversions]
    /\ pc' = "done"
    /\ UNCHANGED <<dirs, fs, si, ti, raw_list, bids_list, file_info, wi,
                   successful_conversions, failed_conversions, events>>
    /\ UNCHANGED <<loadVars, montageVars, findVars>>

NextBatch ==
    \/ SubjectDirMissing
    \/ SubjectDirFound
    \/ FileNotFound
    \/ LoadFailed
    \/ LoadSucceeded
    \/ NoFiles
    \/ StartConversion
    \/ WriteSucceeded
    \/ WriteFailed
    \/ Summary

-----------------------------------------------------------------------------
(* The XDF files of the model.                                             *)
(* Times are in milliseconds, amplitudes in units of 1e-10 V.              *)
(* A stream is [type, name, nominal_srate, channels, time_stamps,          *)
(* time_series]; channels is <<>> when the stream carries no channel       *)
(* description (info.desc.channels), as marker streams do.  A signal's     *)
(* time_series has one row per sample; a marker stream's time_series has   *)
(* one marker value per row: a list of strings, or a scalar.               *)

TagEEG == <<"E","E","G">>
TagData == <<"D","a","t","a">>
TagMarkers == <<"M","a","r","k","e","r","s">>
TagStim == <<"S","t","i","m">>
TagAccel == <<"A","c","c","e","l">>
NameBrainAmp == <<"B","r","a","i","n","A","m","p">>
NameLiveAmpEEG == <<"L","i","v","e","A","m","p","-","E","E","G">>
NameTriggers == <<"T","r","i","g","g","e","r","s">>
NameEEGMarkers == <<"E","E","G","-","M","a","r","k","e","r","s">>
NamePsychoPyMarkers == <<"P","s","y","c","h","o","P","y","-","m","a","r","k","e","r","s">>
NameMotion == <<"M","o","t","i","o","n">>

SignalTags == {[type |-> TagEEG, name |-> NameBrainAmp],
               [type |-> TagData, name |-> NameLiveAmpEEG]}

EventTags == {[type |-> TagMarkers, name |-> NameTriggers],
              [type |-> TagMarkers, name |-> NameEEGMarkers],
              [type |-> TagStim, name |-> NamePsychoPyMarkers]}

\* 40 samples at 1 Hz from t = 1 s, one channel, |x| <= 5e-7 V
Signal40 ==
    [nominal_srate |-> 1, channels |-> <<"Cz">>,
     time_stamps |-> [i \in 1..40 |-> 1000 * i],
     time_series |-> [i \in 1..40 |-> <<IF i % 2 = 0 THEN 5000 ELSE -3000>>]]

\* 11 samples at 1 Hz spanning [0, 10] s, two channels, max |x| = 2e-3 V
Signal11 ==
    [nominal_srate |-> 1, channels |-> <<"Fp1", "Fp2">>,
     time_stamps |-> [i \in 1..11 |-> 1000 * (i - 1)],
     time_series |-> [i \in 1..11 |->
                         <<IF i = 3 THEN -20000000 ELSE 1000, 7000>>]]

\* 4 samples at 2 Hz from t = 10 s, one channel, max |x| = 1e-3 V
Signal4 ==
    [nominal_srate |-> 2, channels |-> <<"Cz">>,
     time_stamps |-> <<10000, 10500, 11000, 11500>>,
     time_series |-> <<<<10000000>>, <<-4000>>, <<0>>, <<250>>>>]

ListValue(items) == [isList |-> TRUE, items |-> items]
ScalarValue(text) == [isList |-> FALSE, items |-> <<text>>]

Events3 ==
    [nominal_srate |-> 0, channels |-> <<>>,
     time_stamps |-> <<2000, 5000, 50000>>,
     time_series |-> <<ListValue(<<"<ecode>17</ecode>">>),
                       ListValue(<<"button_press">>),
                       ListValue(<<"<ecode>3</ecode>">>)>>]

Events2 ==
    [nominal_srate |-> 0, channels |-> <<>>,
     time_stamps |-> <<20000, 30000>>,
     time_series |-> <<ScalarValue("button_press"), ListValue(<<>>)>>]

EventsEdge ==
    [nominal_srate |-> 0, channels |-> <<>>,
     time_stamps |-> <<0, 10000, 12000, 12001>>,
     time_series |-> <<ListValue(<<"start">>),
                       ListValue(<<"<ecode>17</ecode>", "extra">>),
                       ListValue(<<"button_press">>),
                       ListValue(<<"stop">>)>>]

Tagged(tag, content) ==
    [type |-> tag.type, name |-> tag.name,
     nominal_srate |-> content.nominal_srate, channels |-> content.channels,
     time_stamps |-> content.time_stamps, time_series |-> content.time_series]

StreamUniverse ==
    {Tagged(t, c) : t \in SignalTags, c \in {Signal40, Signal11, Signal4}}
    \cup {Tagged(t, c) : t \in EventTags, c \in {Events3, Events2, EventsEdge}}
    \cup {Tagged([type |-> TagAccel, name |-> NameMotion], Signal4)}

StreamLists == UNION {[1..n -> StreamUniverse] : n \in 0..MaxStreams}

-----------------------------------------------------------------------------
(* load_and_prepare_raw (xdf2bids_group.py, lines 107-192) *)

NoRaw == [none |-> TRUE]

eeg == <<"e","e","g">>
marker == <<"m","a","r","k","e","r">>

\* 'eeg' in stream_type or 'eeg' in stream_name
MatchesEeg(stream) ==
    Contains(eeg, Lower(stream.type)) \/ Contains(eeg, Lower(stream.name))

\* 'marker' in stream_type or 'marker' in stream_name
MatchesMarker(stream) ==
    Contains(marker, Lower(stream.type)) \/ Contains(marker, Lower(stream.name))

\* The loop over the streams: each matching stream replaces the one chosen before
RECURSIVE ClassifyFrom(_, _, _)
ClassifyFrom(strs, i, chosen) ==
    IF i > Len(strs) THEN chosen
    ELSE IF MatchesEeg(strs[i])
         THEN ClassifyFrom(strs, i + 1, [chosen EXCEPT !.eeg = i])
         ELSE IF MatchesMarker(strs[i])
              THEN ClassifyFrom(strs, i + 1, [chosen EXCEPT !.markers = i])
              ELSE ClassifyFrom(strs, i + 1, chosen)

ClassifyStreams(strs) == ClassifyFrom(strs, 1, [eeg |-> 0, markers |-> 0])

\* time_series.T
Transpose(m, nch) == [c \in 1..nch |-> [k \in 1..Len(m) |-> m[k][c]]]

\* str(marker_value) of a list with no element
EmptyListStr == "[]"

\* A bug: the marker's time stamp is used as the onset
OnsetAbsolute(marker_time, eeg_start_time) == marker_time

\* onset = marker_time - eeg_start_time
Onset(marker_time, eeg_start_time) == marker_time - eeg_start_time

\* str(marker_value[0]) of a non-empty list, else str(marker_value)
Description(marker_value) ==
    IF marker_value.isList /\ Len(marker_value.items) > 0
    THEN marker_value.items[1]
    ELSE IF marker_value.isList THEN EmptyListStr
         ELSE marker_value.items[1]

\* The loop over zip(marker_timestamps, marker_data)
MarkerAnnotations(markers, eeg_start_time) ==
    [k \in 1..(IF Len(markers.time_stamps) < Len(markers.time_series)
               THEN Len(markers.time_stamps) ELSE Len(markers.time_series)) |->
        [onset |-> Onset(markers.time_stamps[k], eeg_start_time),
         duration |-> 0,
         description |-> Description(markers.time_series[k])]]

\* The length of the recording in ms: n_times / sfreq
Duration(r) == (r.n_times * 1000) \div r.sfreq

\* raw.set_annotations(annotations): mne omits (with a warning) the annotations
\* outside the data range [0, n_times / sfreq] and keeps the others in order
InDataRange(r, a) == a.onset >= 0 /\ a.onset * r.sfreq <= r.n_times * 1000

SetAnnotations(r, annotations) ==
    [r EXCEPT !.annotations = SelectSeq(annotations, LAMBDA a : InDataRange(r, a))]

\* mne.create_info and mne.io.RawArray on the EEG stream
CreateRaw(stream) ==
    [ch_names |-> stream.channels,
     sfreq |-> stream.nominal_srate,
     data |-> Transpose(stream.time_series, Len(stream.channels)),
     n_times |-> Len(stream.time_series),
     montage |-> "none",
     annotations |-> <<>>]

\* The exceptions of the try block: the EEG stream has no channel description
\* or no sampling rate, or it has no sample although there are markers
Raises(strs, chosen) ==
    \/ strs[chosen.eeg].channels = <<>>
    \/ strs[chosen.eeg].nominal_srate <= 0
    \/ chosen.markers # 0 /\ Len(strs[chosen.eeg].time_stamps) = 0

\* What load_and_prepare_raw returns; montage_applied: the montage file exists
\* and mne could read and set it
load_and_prepare_raw(strs, is_corrupt, montage_applied) ==
    IF is_corrupt THEN NoRaw
    ELSE LET chosen == ClassifyStreams(strs)
         IN  IF chosen.eeg = 0 THEN NoRaw
             ELSE IF Raises(strs, chosen) THEN NoRaw
             ELSE LET created == CreateRaw(strs[chosen.eeg])
                      r == [created EXCEPT !.montage =
                               IF montage_applied THEN "applied" ELSE "none"]
                  IN  IF chosen.markers # 0
                      THEN SetAnnotations(r,
                               MarkerAnnotations(strs[chosen.markers],
                                                 strs[chosen.eeg].time_stamps[1]))
                      ELSE r

-----------------------------------------------------------------------------
(* inspect_xdf_file (xdf_debugging.py, lines 34-140) *)

\* The loop over the streams: the first stream whose type matches is kept
RECURSIVE InspectFrom(_, _, _)
InspectFrom(strs, i, chosen) ==
    IF i > Len(strs) THEN chosen
    ELSE LET e == IF Contains(eeg, Lower(strs[i].type)) /\ chosen.eeg = 0
                  THEN i ELSE chosen.eeg
             m == IF Contains(marker, Lower(strs[i].type)) /\ chosen.markers = 0
                  THEN i ELSE chosen.markers
         IN  InspectFrom(strs, i + 1, [eeg |-> e, markers |-> m])

inspect_xdf_file(strs, is_corrupt) ==
    IF is_corrupt THEN [result |-> "load failed", eeg |-> 0, markers |-> 0]
    ELSE LET chosen == InspectFrom(strs, 1, [eeg |-> 0, markers |-> 0])
         IN  IF chosen.eeg = 0 \/ chosen.markers = 0
             THEN [result |-> "skipped", eeg |-> chosen.eeg, markers |-> chosen.markers]
             ELSE [result |-> "finished", eeg |-> chosen.eeg, markers |-> chosen.markers]

NotInspected == [result |-> "none", eeg |-> 0, markers |-> 0]

-----------------------------------------------------------------------------
(* One file: inspected, loaded, queued by main and written *)

IdleLoad ==
    /\ streams = <<>>
    /\ corrupt = FALSE
    /\ lpc = "idle"
    /\ eeg_stream = 0
    /\ markers_stream = 0
    /\ raw = NoRaw
    /\ handed = NoRaw
    /\ inspection = NotInspected

InitLoad ==
    /\ streams \in StreamLists
    /\ corrupt \in BOOLEAN
    /\ lpc = "start"
    /\ eeg_stream = 0
    /\ markers_stream = 0
    /\ raw = NoRaw
    /\ handed = NoRaw
    /\ inspection = NotInspected

\* The debugging script is run on the file
Inspect ==
    /\ lpc = "start"
    /\ inspection = NotInspected
    /\ inspection' = inspect_xdf_file(streams, corrupt)
    /\ UNCHANGED <<streams, corrupt, lpc, eeg_stream, markers_stream, raw, handed>>
    /\ UNCHANGED <<batchVars, montageVars, findVars>>

\* raw = load_and_prepare_raw(xdf_path, montage_path) returned a Raw
LoadReturnsRaw ==
    /\ lpc = "start"
    /\ \E montage_applied \in BOOLEAN :
          /\ raw' = load_and_prepare_raw(streams, corrupt, montage_applied)
          /\ raw' # NoRaw
    /\ eeg_stream' = ClassifyStreams(streams).eeg
    /\ markers_stream' = ClassifyStreams(streams).markers
    /\ lpc' = "loaded"
    /\ UNCHANGED <<streams, corrupt, handed, inspection>>
    /\ UNCHANGED <<batchVars, montageVars, findVars>>

\* load_and_prepare_raw returned None: main goes on to the next file
LoadReturnsNone ==
    /\ lpc = "start"
    /\ load_and_prepare_raw(streams, corrupt, FALSE) = NoRaw
    /\ raw' = NoRaw
    /\ eeg_stream' = IF corrupt THEN 0 ELSE ClassifyStreams(streams).eeg
    /\ markers_stream' = IF corrupt THEN 0 ELSE ClassifyStreams(streams).markers
    /\ lpc' = "failed"
    /\ UNCHANGED <<streams, corrupt, handed, inspection>>
    /\ UNCHANGED <<batchVars, montageVars, findVars>>

\* main appends the Raw to raw_list (lines 233-251)
Queue ==
    /\ lpc = "loaded"
    /\ lpc' = "queued"
    /\ UNCHANGED <<streams, corrupt, eeg_stream, markers_stream, raw, handed,
                   inspection>>
    /\ UNCHANGED <<batchVars, montageVars, findVars>>

\* main hands the queued Raw to write_raw_bids (lines 278-296)
Write ==
    /\ lpc = "queued"
    /\ handed' = raw
    /\ \E ok \in BOOLEAN : lpc' = IF ok THEN "written" ELSE "write failed"
    /\ UNCHANGED <<streams, corrupt, eeg_stream, markers_stream, raw, inspection>>
    /\ UNCHANGED <<batchVars, montageVars, findVars>>

NextLoad ==
    \/ Inspect
    \/ LoadReturnsRaw
    \/ LoadReturnsNone
    \/ Queue
    \/ Write

IdleBatch ==
    /\ dirs = {}
    /\ fs = {}
    /\ pc = "idle"
    /\ si = 1
    /\ ti = 1
    /\ raw_list = <<>>
    /\ bids_list = <<>>
    /\ file_info = <<>>
    /\ wi = 0
    /\ successful_conversions = 0
    /\ failed_conversions = 0
    /\ summary = NoSummary
    /\ events = <<>>

-----------------------------------------------------------------------------
(* create_prox64_montage (Create_montage_PRO-64x.py, lines 6-86)            *)
(* Coordinates are fixed-point: sines and cosines in units of 1e-4,        *)
(* positions on the unit sphere in units of 1e-8.                          *)

E(label, theta, phi) == [label |-> label, theta |-> theta, phi |-> phi]

\* Step 1: the table of (Theta_degrees, Phi_degrees)
CoordsTable ==
    <<
        E("Fp1", -90, -72), E("Fp2", 90, 72), E("F3", -60, -51),
        E("F4", 60, 51), E("C3", -45, 0), E("C4", 45, 0),
        E("P3", -60, 51), E("P4", 60, -51), E("O1", -90, 72),
        E("O2", 90, -72), E("F7", -90, -36), E("F8", 90, 36),
        E("T7", -90, 0), E("T8", 90, 0), E("P7", -90, 36),
        E("P8", 90, -36), E("AFz", 67, 90), E("Fz", 45, 90),
        E("Cz", 0, 0), E("Pz", 45, -90), E("FC1", -31, -46),
        E("FC2", 31, 46), E("CP1", -31, 46), E("CP2", 31, -46),
        E("FC5", -69, -21), E("FC6", 69, 21), E("CP5", -69, 21),
        E("CP6", 69, -21), E("FT9", -113, -18), E("FT10", 113, 18),
        E("TP7", -90, 18), E("TP8", 90, -18), E("F1", -49, -68),
        E("F2", 49, 68), E("C1", -23, 0), E("C2", 23, 0),
        E("P1", -49, 68), E("P2", 49, -68), E("AF3", -74, -68),
        E("AF4", 74, 68), E("FC3", -49, -29), E("FC4", 49, 29),
        E("CP3", -49, 29), E("CP4", 49, -29), E("PO3", -74, 68),
        E("PO4", 74, -68), E("F5", -74, -41), E("F6", 74, 41),
        E("C5", -68, 0), E("C6", 68, 0), E("P5", -74, 41),
        E("P6", 74, -41), E("AF7", -90, -54), E("AF8", 90, 54),
        E("FT7", -90, -18), E("FT8", 90, 18), E("TP9", -113, 18),
        E("TP10", 113, -18), E("PO7", -90, 54), E("PO8", 90, -54),
        E("PO9", -113, 54), E("PO10", 113, -54), E("CPz", 22, -90),
        E("POz", 67, -90), E("Fpz", 90, 90), E("FCz", 23, 90)
    >>

\* round(1e4 * sin(d degrees)) for d = 0 .. 90
SinTable ==
    <<
        0, 175, 349, 523, 698, 872, 1045, 1219, 1392, 1564, 1736, 1908, 2079,
        2250, 2419, 2588, 2756, 2924, 3090, 3256, 3420, 3584, 3746, 3907, 4067, 4226,
        4384, 4540, 4695, 4848, 5000, 5150, 5299, 5446, 5592, 5736, 5878, 6018, 6157,
        6293, 6428, 6561, 6691, 6820, 6947, 7071, 7193, 7314, 7431, 7547, 7660, 7771,
        7880, 7986, 8090, 8192, 8290, 8387, 8480, 8572, 8660, 8746, 8829, 8910, 8988,
        9063, 9135, 9205, 9272, 9336, 9397, 9455, 9511, 9563, 9613, 9659, 9703, 9744,
        9781, 9816, 9848, 9877, 9903, 9925, 9945, 9962, 9976, 9986, 9994, 9998, 10000
    >>

\* np.sin(np.deg2rad(d)) for an integer number of degrees in -180 .. 180
SinDeg(d) ==
    IF d < 0 THEN
        (IF -d <= 90 THEN -SinTable[-d + 1] ELSE -SinTable[180 + d + 1])
    ELSE
        (IF d <= 90 THEN SinTable[d + 1] ELSE SinTable[180 - d + 1])

\* np.cos(np.deg2rad(d)) for an integer number of degrees in -180 .. 180
CosDeg(d) ==
    LET a == IF d < 0 THEN -d ELSE d
    IN  IF a <= 90 THEN SinTable[90 - a + 1] ELSE -SinTable[a - 90 + 1]

\* A bug: y is computed with the cosine of phi, like x
CartesianCosCos(theta, phi) ==
    <<SinDeg(theta) * CosDeg(phi), SinDeg(theta) * CosDeg(phi), CosDeg(theta) * 10000>>

\* Step 2: x, y, z of an angle pair
Cartesian(theta, phi) ==
    <<SinDeg(theta) * CosDeg(phi), SinDeg(theta) * SinDeg(phi), CosDeg(theta) * 10000>>

\* coords_deg[new] = coords_deg.pop(old): the entry leaves its place and is
\* inserted, under the new label, at the end
PopInsert(table, old, new) ==
    LET i == CHOOSE k \in DOMAIN table : table[k].label = old
    IN  Append(SelectSeq(table, LAMBDA e : e.label # old),
               E(new, table[i].theta, table[i].phi))

\* ch_pos_cartesian[ch_name] = position
Store(positions, ch_name, position) ==
    IF \E k \in DOMAIN positions : positions[k].label = ch_name
    THEN [k \in DOMAIN positions |->
            IF positions[k].label = ch_name
            THEN [label |-> ch_name, pos |-> position] ELSE positions[k]]
    ELSE Append(positions, [label |-> ch_name, pos |-> position])

\* the head radius, in mm
radius == 95

NoMontage == [none |-> TRUE]

IdleMontage ==
    /\ mpc = "idle"
    /\ coords_deg = <<>>
    /\ mk = 1
    /\ xy = <<0, 0>>
    /\ ch_pos_cartesian = <<>>
    /\ montage = NoMontage

InitMontage ==
    /\ mpc = "rename DRL"
    /\ coords_deg = CoordsTable
    /\ mk = 1
    /\ xy = <<0, 0>>
    /\ ch_pos_cartesian = <<>>
    /\ montage = NoMontage

\* coords_deg['FpCz_DRL'] = coords_deg.pop('Fpz')
RenameDRL ==
    /\ mpc = "rename DRL"
    /\ coords_deg' = PopInsert(coords_deg, "Fpz", "FpCz_DRL")
    /\ mpc' = "rename CMS"
    /\ UNCHANGED <<mk, xy, ch_pos_cartesian, montage>>
    /\ UNCHANGED <<batchVars, loadVars, findVars>>

\* coords_deg['FCz_CMS'] = coords_deg.pop('FCz')
RenameCMS ==
    /\ mpc = "rename CMS"
    /\ coords_deg' = PopInsert(coords_deg, "FCz", "FCz_CMS")
    /\ mpc' = "x"
    /\ UNCHANGED <<mk, xy, ch_pos_cartesian, montage>>
    /\ UNCHANGED <<batchVars, loadVars, findVars>>

\* theta_rad, phi_rad and x of the next entry (lines 57-64)
ComputeX ==
    /\ mpc = "x"
    /\ mk <= Len(coords_deg)
    /\ xy' = <<Cartesian(coords_deg[mk].theta, coords_deg[mk].phi)[1], 0>>
    /\ mpc' = "y"
    /\ UNCHANGED <<coords_deg, mk, ch_pos_cartesian, montage>>
    /\ UNCHANGED <<batchVars, loadVars, findVars>>

\* y of the entry (line 65)
ComputeY ==
    /\ mpc = "y"
    /\ xy' = <<xy[1], Cartesian(coords_deg[mk].theta, coords_deg[mk].phi)[2]>>
    /\ mpc' = "z"
    /\ UNCHANGED <<coords_deg, mk, ch_pos_cartesian, montage>>
    /\ UNCHANGED <<batchVars, loadVars, findVars>>

\* z of the entry, and the position is stored under its label (lines 66-68)
ComputeZAndStore ==
    /\ mpc = "z"
    /\ ch_pos_cartesian' =
          Store(ch_pos_cartesian, coords_deg[mk].label,
                <<xy[1], xy[2],
                  Cartesian(coords_deg[mk].theta, coords_deg[mk].phi)[3]>>)
    /\ mk' = mk + 1
    /\ xy' = <<0, 0>>
    /\ mpc' = "x"
    /\ UNCHANGED <<coords_deg, montage>>
    /\ UNCHANGED <<batchVars, loadVars, findVars>>

\* Steps 3 and 4: the fiducials and mne.channels.make_dig_montage
MakeMontage ==
    /\ mpc = "x"
    /\ mk > Len(coords_deg)
    /\ montage' = [ch_pos |-> ch_pos_cartesian,
                   lpa |-> <<-radius, 0, 0>>,
                   rpa |-> <<radius, 0, 0>>,
                   nasion |-> <<0, radius, 0>>,
                   coord_frame |-> "head"]
    /\ mpc' = "done"
    /\ UNCHANGED <<coords_deg, mk, xy, ch_pos_cartesian>>
    /\ UNCHANGED <<batchVars, loadVars, findVars>>

NextMontage ==
    \/ RenameDRL
    \/ RenameCMS
    \/ ComputeX
    \/ ComputeY
    \/ ComputeZAndStore
    \/ MakeMontage

-----------------------------------------------------------------------------
(* One call of find_xdf_file (xdf2bids_group.py, lines 84-100, called at    *)
(* line 220 with a configured subject and task)                            *)

\* The registered variations of a task, none when the task has no entry
VariationsOf(task_name) ==
    IF task_name \in DOMAIN task_variations THEN task_variations[task_name] ELSE <<>>

\* The file names the call looks up in the subject's directory
LookedUp(subject_id, task_name) ==
    {XdfFile(subject_id, task_name)}
        \cup {XdfFile(subject_id, v) : v \in Range(VariationsOf(task_name))}

\* Other files of the subject's directory: the files of other tasks
Unrelated(subject_id, task_name) ==
    {XdfFile(subject_id, t) : t \in AllTaskNames \ {task_name}}
        \ LookedUp(subject_id, task_name)

OtherFiles(subject_id, task_name) ==
    LET others == Unrelated(subject_id, task_name)
    IN  {{}} \cup {{CHOOSE f \in others : TRUE}}

NotCalled == [path |-> NoPath, task |-> "not called"]

IdleFind ==
    /\ fpc = "idle"
    /\ find_files = {}
    /\ find_subject = None
    /\ find_task = None
    /\ find_result = NotCalled

InitFind ==
    /\ fpc = "call"
    /\ find_subject \in Range(subjects)
    /\ find_task \in Range(tasks)
    /\ \E looked \in SUBSET LookedUp(find_subject, find_task) :
          \E other \in OtherFiles(find_subject, find_task) :
             find_files = looked \cup other
    /\ find_result = NotCalled

\* xdf_path, actual_task = find_xdf_file(subject_dir, subject_id, task_name)
CallFind ==
    /\ fpc = "call"
    /\ find_result' = find_xdf_file(find_files, find_subject, find_task)
    /\ fpc' = "returned"
    /\ UNCHANGED <<find_files, find_subject, find_task>>
    /\ UNCHANGED <<batchVars, loadVars, montageVars>>

NextFind == CallFind

-----------------------------------------------------------------------------
(* Specifications *)

Init == InitBatch /\ IdleLoad /\ IdleMontage /\ IdleFind

Next == NextBatch

Spec == Init /\ [][Next]_vars

InitSpecLoad == IdleBatch /\ InitLoad /\ IdleMontage /\ IdleFind

SpecLoad == InitSpecLoad /\ [][NextLoad]_vars

InitSpecMontage == IdleBatch /\ IdleLoad /\ InitMontage /\ IdleFind

SpecMontage == InitSpecMontage /\ [][NextMontage]_vars

InitSpecFind == IdleBatch /\ IdleLoad /\ IdleMontage /\ InitFind

SpecFind == InitSpecFind /\ [][NextFind]_vars

-----------------------------------------------------------------------------
(* Properties of main *)

\* The input files main discovers: what find_xdf_file returns for the
\* configured (subject, task) pairs of the subjects whose directory exists
Discovered ==
    {find_xdf_file(fs, s, t).path : s \in Range(subjects) \cap dirs, t \in Range(tasks)}
        \ {NoPath}

LoadAttempted(f) ==
    \E i \in DOMAIN events : events[i].op = "load" /\ events[i].file = f

LoadedOk(f) ==
    \E i \in DOMAIN events : events[i].op = "load" /\ events[i].file = f /\ events[i].ok

HandedToWriter(f) ==
    \E i \in DOMAIN events : events[i].op = "write" /\ events[i].file = f

\* C1: failure isolation. When main has ended, every discovered file has been
\* loaded, and every file whose load succeeded has been handed to the writer,
\* whichever loads and writes of other files failed.
C1_FailureIsolation ==
    pc = "done" =>
        \A f \in Discovered :
            /\ LoadAttempted(f)
            /\ LoadedOk(f) => HandedToWriter(f)

\* A finished batch in which one file failed (in its load or its write) and a
\* different file was handled after it.
C1_Witness ==
    /\ pc = "done"
    /\ \E i, j \in DOMAIN events :
          /\ i < j
          /\ ~events[i].ok
          /\ events[j].file # events[i].file
          /\ events[j].op = "write"

\* C2 (as claimed): in the summary, the number of input files found is
\* successful + failed, the failed ones including those that failed to load.
C2_AttemptedIsSucceededPlusFailed ==
    (pc = "done" /\ summary # NoSummary) =>
        /\ summary.total = Cardinality(Discovered)
        /\ Cardinality(Discovered) = summary.successful + summary.failed

\* C3 (as claimed): when the load of a file B begins, every file A loaded
\* before it has failed or has already been written.
C3_OneFileToCompletion ==
    \A a, b \in DOMAIN events :
        (a < b /\ events[a].op = "load" /\ events[b].op = "load") =>
            \/ ~events[a].ok
            \/ \E w \in DOMAIN events :
                  a < w /\ w < b /\ events[w].op = "write"
                  /\ events[w].file = events[a].file

\* The files of the successful loads, in load order
RECURSIVE LoadedFiles(_)
LoadedFiles(ev) ==
    IF ev = <<>> THEN <<>>
    ELSE IF Head(ev).op = "load" /\ Head(ev).ok
         THEN <<Head(ev).file>> \o LoadedFiles(Tail(ev))
         ELSE LoadedFiles(Tail(ev))

\* The files handed to the writer, in write order
RECURSIVE WrittenFiles(_)
WrittenFiles(ev) ==
    IF ev = <<>> THEN <<>>
    ELSE IF Head(ev).op = "write"
         THEN <<Head(ev).file>> \o WrittenFiles(Tail(ev))
         ELSE WrittenFiles(Tail(ev))

IsPrefix(s, t) == Len(s) <= Len(t) /\ \A i \in DOMAIN s : s[i] = t[i]

\* C3 (amended): two phases. Every load happens before every write (no file is
\* written until all discovered files have been loaded), and the successfully
\* loaded files are written one at a time in the order they were loaded.
C3_LoadAllThenWriteInOrder ==
    /\ \A i, j \in DOMAIN events :
          (i < j /\ events[i].op = "write") => events[j].op = "write"
    /\ IsPrefix(WrittenFiles(events), LoadedFiles(events))
    /\ (pc = "done" /\ summary # NoSummary) =>
          WrittenFiles(events) = LoadedFiles(events)

\* Two files were loaded successfully and both have been written.
C3_Witness ==
    /\ pc = "done"
    /\ Len(LoadedFiles(events)) >= 2
    /\ Len(WrittenFiles(events)) >= 2

-----------------------------------------------------------------------------
(* Properties of load_and_prepare_raw *)

Returned == lpc \in {"loaded", "queued", "written", "write failed", "failed"}

\* The role the stated policy gives a stream: the type tag decides, the name tag
\* is consulted only when the type tag matches neither role
PolicyRole(stream) ==
    IF Contains(eeg, Lower(stream.type)) THEN "eeg"
    ELSE IF Contains(marker, Lower(stream.type)) THEN "marker"
    ELSE IF Contains(eeg, Lower(stream.name)) THEN "eeg"
    ELSE IF Contains(marker, Lower(stream.name)) THEN "marker"
    ELSE "none"

FirstWithRole(strs, role) ==
    IF \E i \in DOMAIN strs : PolicyRole(strs[i]) = role
    THEN CHOOSE i \in DOMAIN strs :
            /\ PolicyRole(strs[i]) = role
            /\ \A j \in 1..(i - 1) : PolicyRole(strs[j]) # role
    ELSE 0

\* C4 (as claimed): the stream chosen for a role is the first stream in list
\* order that has the role, the type tag taking precedence over the name tag.
C4_FirstMatchTypeFirst ==
    (Returned /\ ~corrupt) =>
        /\ eeg_stream = FirstWithRole(streams, "eeg")
        /\ markers_stream = FirstWithRole(streams, "marker")

\* C5 (as claimed): a file in which no stream was chosen as EEG, or none as
\* markers, yields no Recording.
C5_MissingRoleFails ==
    (Returned /\ (eeg_stream = 0 \/ markers_stream = 0)) => raw = NoRaw

\* The onsets, in marker order, of the markers of stream m that fall within
\* [0, duration] of the recording r whose first sample was taken at origin
ExpectedOnsets(m, origin, r) ==
    LET all == [k \in DOMAIN m.time_stamps |-> m.time_stamps[k] - origin]
    IN  SelectSeq(all, LAMBDA o : 0 <= o /\ o <= Duration(r))

PayloadText(marker_value) ==
    IF marker_value.isList /\ Len(marker_value.items) > 0
    THEN marker_value.items[1]
    ELSE IF marker_value.isList THEN "[]" ELSE marker_value.items[1]

\* The description the stated rule gives a payload: Event_N for <ecode>N</ecode>
ClaimedDescription(text) ==
    IF text = "<ecode>17</ecode>" THEN "Event_17"
    ELSE IF text = "<ecode>3</ecode>" THEN "Event_3"
    ELSE text

\* C7 (as claimed): each annotation's description is Event_N when its marker's
\* payload is <ecode>N</ecode>, and the payload text otherwise.
C7_DescriptionFromPayload ==
    (raw # NoRaw /\ markers_stream # 0) =>
        \A i \in DOMAIN raw.annotations :
            \E k \in DOMAIN streams[markers_stream].time_stamps :
                /\ raw.annotations[i].onset =
                      streams[markers_stream].time_stamps[k]
                        - streams[eeg_stream].time_stamps[1]
                /\ raw.annotations[i].description =
                      ClaimedDescription(PayloadText(streams[markers_stream].time_series[k]))

First(sq) == sq[1]

Last(sq) == sq[Len(sq)]

\* The EEG and the marker time spans of the chosen streams do not overlap
DisjointSpans ==
    /\ eeg_stream # 0
    /\ markers_stream # 0
    /\ Len(streams[eeg_stream].time_stamps) > 0
    /\ Len(streams[markers_stream].time_stamps) > 0
    /\ \/ Last(streams[eeg_stream].time_stamps) < First(streams[markers_stream].time_stamps)
       \/ Last(streams[markers_stream].time_stamps) < First(streams[eeg_stream].time_stamps)

\* C8 (as claimed): a file whose EEG and marker spans are disjoint fails; no
\* Recording of it is returned, queued or handed to the writer.
C8_EmptyAlignmentReported ==
    (Returned /\ DisjointSpans) => (raw = NoRaw /\ handed = NoRaw)

Abs(x) == IF x < 0 THEN -x ELSE x

MaxAbs(m) ==
    LET values == {Abs(m[k][c]) : k \in DOMAIN m, c \in DOMAIN m[1]}
    IN  CHOOSE v \in values : \A w \in values : w <= v

\* C9 (as claimed): when the largest |sample| of the file exceeds 1e-3 V
\* (10^7 units of 1e-10 V) every sample handed to the writer is the input sample
\* times 1e-6, and otherwise it is the input sample.
C9_AmplitudeHeuristic ==
    handed # NoRaw =>
        LET input == streams[eeg_stream].time_series
        IN  \A c \in DOMAIN handed.data : \A k \in DOMAIN handed.data[c] :
                IF MaxAbs(input) > 10000000
                THEN /\ input[k][c] % 1000000 = 0
                     /\ handed.data[c][k] = input[k][c] \div 1000000
                ELSE handed.data[c][k] = input[k][c]

-----------------------------------------------------------------------------
(* Properties of create_prox64_montage *)

\* Two positions coincide when every coordinate agrees within 2e-4, the error
\* the fixed-point sines can add up to
SamePosition(p, q) ==
    \A c \in 1..3 : p[c] - q[c] <= 2 * 10000 /\ q[c] - p[c] <= 2 * 10000

\* The angle pairs of the table whose position is the given one
AnglesAt(position) ==
    {<<coords_deg[k].theta, coords_deg[k].phi>> : k \in
        {j \in DOMAIN coords_deg :
            SamePosition(Cartesian(coords_deg[j].theta, coords_deg[j].phi), position)}}

Labels(positions) == {positions[k].label : k \in DOMAIN positions}

\* C10: the renaming leaves the table with its 66 entries, no two labels of the
\* montage have the same position, and the position of each entry is that of no
\* other angle pair of the table; the finished montage holds every entry.
C10_MontageInjective ==
    /\ Len(coords_deg) = Len(CoordsTable)
    /\ \A i, j \in DOMAIN ch_pos_cartesian :
          i # j =>
             /\ ch_pos_cartesian[i].label # ch_pos_cartesian[j].label
             /\ ~SamePosition(ch_pos_cartesian[i].pos, ch_pos_cartesian[j].pos)
    /\ \A i \in DOMAIN ch_pos_cartesian :
          \E k \in DOMAIN coords_deg :
             /\ coords_deg[k].label = ch_pos_cartesian[i].label
             /\ AnglesAt(ch_pos_cartesian[i].pos)
                   = {<<coords_deg[k].theta, coords_deg[k].phi>>}
    /\ mpc = "done" =>
          /\ Labels(montage.ch_pos) = {coords_deg[k].label : k \in DOMAIN coords_deg}
          /\ Cardinality(Labels(montage.ch_pos)) = Len(CoordsTable)
          /\ {"FpCz_DRL", "FCz_CMS"} \subseteq Labels(montage.ch_pos)
          /\ Labels(montage.ch_pos) \cap {"Fpz", "FCz"} = {}

\* The montage is finished and holds the two renamed electrodes.
C10_Witness ==
    /\ mpc = "done"
    /\ Cardinality(Labels(montage.ch_pos)) = 66
    /\ "FpCz_DRL" \in Labels(montage.ch_pos)

-----------------------------------------------------------------------------
(* Properties of find_xdf_file *)

\* The positions, in registry order, of the variations whose file exists
ExistingVariations(files, subject_id, task_name) ==
    {i \in DOMAIN VariationsOf(task_name) :
        XdfFile(subject_id, VariationsOf(task_name)[i]) \in files}

\* C11: the primary file, when it exists, is returned with the task name,
\* whichever variation files exist; otherwise the first variation in registry
\* order whose file exists is returned with that variation's name; otherwise
\* (None, None). A returned task name is the one in the returned file's name.
C11_LookupWithFallback ==
    fpc = "returned" =>
        LET primary == XdfFile(find_subject, find_task)
            existing == ExistingVariations(find_files, find_subject, find_task)
        IN  /\ primary \in find_files =>
                  find_result = [path |-> primary, task |-> find_task]
            /\ (primary \notin find_files /\ existing # {}) =>
                  \E i \in existing :
                     /\ \A j \in existing : i <= j
                     /\ find_result.task = VariationsOf(find_task)[i]
                     /\ find_result.path = XdfFile(find_subject, find_result.task)
            /\ (primary \notin find_files /\ existing = {}) =>
                  find_result = [path |-> NoPath, task |-> None]
            /\ find_result.path # NoPath =>
                  /\ find_result.path \in find_files
                  /\ find_result.path = XdfFile(find_subject, find_result.task)

\* The primary file is absent, both variations of the task exist, and the call
\* returned the first of them.
C11_Witness ==
    /\ fpc = "returned"
    /\ find_task = "sitting-eyes-closed"
    /\ XdfFile(find_subject, find_task) \notin find_files
    /\ Cardinality(ExistingVariations(find_files, find_subject, find_task)) = 2
    /\ find_result.task = "sitting-eyes-closed-before"

-----------------------------------------------------------------------------
(* Properties of the queued destinations *)

\* The configured tasks under which a file of this name is found
ConfiguredOf(actual_task) ==
    {t \in Range(tasks) : actual_task = t \/ actual_task \in Range(VariationsOf(t))}

\* The destination that the write loop gives to the i-th queued recording
Destination(i) ==
    [subject |-> QueuedAt(bids_list, i).subject,
     session |-> QueuedAt(bids_list, i).session,
     task    |-> QueuedAt(bids_list, i).task]

\* C12: raw_list, bids_list and file_info have equal length and index i of each
\* describes the same file; at most one recording is queued per (subject,
\* configured task); the BIDS task name is convert_task_name_for_bids of the
\* task or variation found; and no two queued recordings share a (subject,
\* session, BIDS task name) destination, so no write replaces another's output.
C12_DestinationsUnique ==
    /\ Len(raw_list) = Len(bids_list)
    /\ Len(bids_list) = Len(file_info)
    /\ \A i \in DOMAIN file_info :
          /\ raw_list[i].file = file_info[i].file
          /\ file_info[i].file = XdfFile(file_info[i].subject, file_info[i].task)
          /\ bids_list[i].subject = file_info[i].subject
          /\ bids_list[i].session = session
          /\ bids_list[i].task = file_info[i].bids_task
          /\ bids_list[i].task = convert_task_name_for_bids(file_info[i].task)
    /\ \A i, j \in DOMAIN file_info :
          i # j =>
             /\ ~ /\ file_info[i].subject = file_info[j].subject
                  /\ ConfiguredOf(file_info[i].task) \cap ConfiguredOf(file_info[j].task) # {}
             /\ Destination(i) # Destination(j)

\* A finished batch that queued and wrote two recordings of one subject, one of
\* them found under a variation of its configured task.
C12_Witness ==
    /\ pc = "done"
    /\ Len(raw_list) = 2
    /\ wi > Len(raw_list)
    /\ file_info[1].subject = file_info[2].subject
    /\ \E i \in DOMAIN file_info : file_info[i].task \notin Range(tasks)
    /\ HandedToWriter(raw_list[1].file) /\ HandedToWriter(raw_list[2].file)

=============================================================================
